---- MODULE Spec2Model ----
(***************************************************************************)
(* Model of the Feast data-quality connector: FeastDQOnlyConnector.run_once *)
(* (src/main.py) with its helpers to_iso_z, _opt, fetch_dataset_name,       *)
(* evaluate_quality, send_event, and the event serializer                   *)
(* MonitoringPlatformQualityCheck.to_dict (src/models.py).                  *)
(*                                                                         *)
(* One action is one step of run_once between two points at which the      *)
(* outside world can observe it: a network call together with the code     *)
(* that runs before and after it, or the exhaustion of one of the three    *)
(* nested for-loops.  The HTTP responses are the inputs, drawn with \E.     *)
(***************************************************************************)
EXTENDS Integers, Sequences, FiniteSets, TLC

\* ---------------------------------------------------------------- bounds
MaxDatasets == 2      \* longest configured dataset list
MaxCriteria == 2      \* longest configured criteria list
MaxResults  == 2      \* longest results list of a report
MaxClock    == 1      \* the wall clock runs over 0..MaxClock
MaxMs       == 1      \* in-range epoch values / wall times run over 0..MaxMs

\* ------------------------------------------------ Python and JSON values
\* Values are tagged records, so that values of different Python types are
\* different TLA+ values with different field sets.
None      == [t |-> "none"]
Str(s)    == [t |-> "str", s |-> s]
Num(n)    == [t |-> "num", n |-> n]
\* a number whose magnitude datetime.fromtimestamp cannot represent (1e18)
BigNum    == [t |-> "num", big |-> TRUE]
Bool(b)   == [t |-> "bool", b |-> b]
Obj(d)    == [t |-> "obj", d |-> d]
List(l)   == [t |-> "list", l |-> l]
\* a string that dateutil's isoparse accepts: wall-clock time and UTC offset
\* (off = None for a string without timezone information)
DateStr(w, off) == [t |-> "str", date |-> [wall |-> w, off |-> off]]
\* the canonical output string "....Z" denoting the UTC instant ms
IsoZ(ms)  == [t |-> "str", isoz |-> ms]
\* a string given character by character (the auth token)
Chars(cs) == [t |-> "str", chars |-> cs]
\* the i-th identifier of a kind ("d": datasets, "c": criteria), a non-empty
\* string different from every other identifier
Id(kind, i) == [t |-> "str", id |-> <<kind, i>>]
\* a key that a JSON object does not have (dropped by Dict)
Absent    == [t |-> "absent"]
EmptyDict == [k \in {} |-> None]

\* results of a call: a returned value or a raised exception
Ok(v)     == [ok |-> TRUE, val |-> v]
Raise(e)  == [ok |-> FALSE, exc |-> e]

\* Python truthiness (bool(x), `if x`, `x or y`)
Truthy(x) ==
    \E v \in {x} :    \* v is the value of x, evaluated once
    CASE v.t = "none" -> FALSE
      [] v.t = "bool" -> v.b
      [] v.t = "num"  -> IF "big" \in DOMAIN v THEN TRUE ELSE v.n # 0
      [] v.t = "str"  -> IF "s" \in DOMAIN v THEN v.s # ""
                         ELSE IF "chars" \in DOMAIN v THEN v.chars # <<>>
                         ELSE TRUE   \* identifiers, dates: never empty
      [] v.t = "obj"  -> DOMAIN v.d # {}
      [] v.t = "list" -> Len(v.l) > 0

PyOr(a, b) == IF Truthy(a) THEN a ELSE b

\* dict.get(k) on a dict d (a function from keys to values)
Get(d, k) == IF k \in DOMAIN d THEN d[k] ELSE None

\* a dict literal in which the keys mapped to Absent do not exist
Dict(d) == [k \in {x \in DOMAIN d : d[x] # Absent} |-> d[k]]

\* keep only the entries of a dict whose value is not None (the dict is
\* evaluated once: e is its value)
DropNone(d) ==
    CHOOSE f \in {[k \in {x \in DOMAIN e : e[x] # None} |-> e[k]] : e \in {d}} :
        TRUE

\* ------------------------------------------------------------- src/main.py
\* str.strip() on a sequence of characters
RECURSIVE strip(_)
strip(cs) ==
    IF cs = <<>> THEN cs
    ELSE IF Head(cs) = " " THEN strip(Tail(cs))
    ELSE IF cs[Len(cs)] = " " THEN strip(SubSeq(cs, 1, Len(cs) - 1))
    ELSE cs

\* _opt without the trimming
_opt_nostrip(s) == IF Truthy(s) THEN s ELSE None

\* _opt: the string if non-empty after trimming, else None
_opt(s) == IF Truthy(s) /\ Truthy(Chars(strip(s.chars))) THEN s ELSE None

\* dateutil isoparse: a datetime for a date string, ValueError/TypeError
\* for everything else
isoparse(ts) ==
    IF ts.t = "str" /\ "date" \in DOMAIN ts
    THEN Ok([wall |-> ts.date.wall, tzinfo |-> ts.date.off])
    ELSE Raise("ValueError")

\* to_iso_z that reads a string without timezone information as local time,
\* in a zone one unit ahead of UTC
to_iso_z_local(ts, now) ==
    IF ts = None THEN Ok(IsoZ(now))
    ELSE IF ts.t \in {"num", "bool"}
    THEN IF ts.t = "bool" THEN Ok(IsoZ(IF ts.b THEN 1 ELSE 0))
         ELSE IF "big" \in DOMAIN ts THEN Raise("OverflowError")
         ELSE Ok(IsoZ(ts.n))
    ELSE LET p == isoparse(ts) IN
         IF ~p.ok THEN Ok(IsoZ(now))
         ELSE LET dt == IF p.val.tzinfo = None
                        THEN [wall |-> p.val.wall, tzinfo |-> Num(1)]
                        ELSE p.val
              IN Ok(IsoZ(dt.wall - dt.tzinfo.n))

\* to_iso_z(ts) evaluated when the wall clock shows now
to_iso_z(ts, now) ==
    IF ts = None THEN Ok(IsoZ(now))
    ELSE IF ts.t \in {"num", "bool"}
    THEN IF ts.t = "bool" THEN Ok(IsoZ(IF ts.b THEN 1 ELSE 0))
         ELSE IF "big" \in DOMAIN ts THEN Raise("OverflowError")
         ELSE Ok(IsoZ(ts.n))
    ELSE LET p == isoparse(ts) IN
         IF ~p.ok THEN Ok(IsoZ(now))
         ELSE LET dt == IF p.val.tzinfo = None
                        THEN [wall |-> p.val.wall, tzinfo |-> Num(0)]
                        ELSE p.val
              IN Ok(IsoZ(dt.wall - dt.tzinfo.n))

\* _resolve_logstash_basic that hands on whatever token is configured
_resolve_logstash_basic_lenient(auth) == Ok(auth)

\* _resolve_logstash_basic
_resolve_logstash_basic(auth) ==
    LET token == _opt(auth) IN
    IF token = None THEN Raise("RuntimeError") ELSE Ok(token)

\* HTTP responses: r.exc = the transport raised; otherwise r.ok is the
\* status class and r.body the body
EmptyBody   == [kind |-> "empty"]
InvalidBody == [kind |-> "invalid"]
JsonBody(v) == [kind |-> "json", j |-> v]
Response(ok, body) == [exc |-> FALSE, ok |-> ok, body |-> body]
TransportError == [exc |-> TRUE]

\* r.json()
json(r) ==
    IF r.body.kind = "json" THEN Ok(r.body.j) ELSE Raise("JSONDecodeError")

\* fetch_dataset_name, given the response r of the GET
fetch_dataset_name(r) ==
    IF r.exc THEN Raise("ConnectionError")
    ELSE IF r.ok /\ r.body.kind # "empty"
    THEN LET j == json(r) IN
         IF ~j.ok THEN j
         ELSE IF j.val.t # "obj" THEN Raise("AttributeError")
         ELSE Ok(PyOr(Get(j.val.d, "title"), Get(j.val.d, "name")))
    ELSE Ok(None)

\* evaluate_quality without raise_for_status
evaluate_quality_unchecked(r) ==
    IF r.exc THEN Raise("ConnectionError") ELSE json(r)

\* evaluate_quality, given the response r of the POST
evaluate_quality(r) ==
    IF r.exc THEN Raise("ConnectionError")
    ELSE IF ~r.ok THEN Raise("HTTPError")
    ELSE json(r)

\* float(x)
float(x) ==
    IF x.t = "num" THEN Ok(x)
    ELSE IF x.t = "bool" THEN Ok(Num(IF x.b THEN 1 ELSE 0))
    ELSE IF x.t = "str" THEN Raise("ValueError")
    ELSE Raise("TypeError")

\* ----------------------------------------------------------- src/models.py
\* MonitoringPlatformQualityCheck.__init__
MonitoringPlatformQualityCheck(dataset_id, dataset_name, name, category, low, value, passed, at_timestamp) ==
    [event_type   |-> Str("quality_check"),
     dataset_id   |-> dataset_id,
     dataset_name |-> dataset_name,
     name         |-> name,
     category     |-> PyOr(category, Obj(EmptyDict)),
     low          |-> low,
     value        |-> value,
     passed       |-> passed,
     at_timestamp |-> at_timestamp]

\* the "category" entry of the payload of to_dict
to_dict_category(self) ==
    IF Truthy(self.category)
    THEN Obj(DropNone(
           [context  |-> Get(PyOr(self.category, Obj(EmptyDict)).d, "context"),
            category |-> Get(PyOr(self.category, Obj(EmptyDict)).d, "category")]))
    ELSE None

\* to_dict without the final filter of null entries
to_dict_keep_nulls(self) ==
    [event_type   |-> self.event_type,
     dataset_id   |-> self.dataset_id,
     dataset_name |-> self.dataset_name,
     name         |-> self.name,
     category     |-> to_dict_category(self),
     low          |-> self.low,
     value        |-> self.value,
     passed       |-> self.passed,
     timestamp    |-> self.at_timestamp]

\* MonitoringPlatformQualityCheck.to_dict
to_dict(self) ==
    DropNone(
      [event_type   |-> self.event_type,
       dataset_id   |-> self.dataset_id,
       dataset_name |-> self.dataset_name,
       name         |-> self.name,
       category     |-> to_dict_category(self),
       low          |-> self.low,
       value        |-> self.value,
       passed       |-> self.passed,
       timestamp    |-> self.at_timestamp])

\* --------------------------------------------------- src/main.py: run_once
\* the value converted only when it is truthy
value_of_truthy(res) ==
    IF Truthy(Get(res, "value")) THEN float(Get(res, "value")) ELSE Ok(None)

\* line 124: the value of the event built from a result row
value_of(res) ==
    IF Get(res, "value") # None THEN float(Get(res, "value")) ELSE Ok(None)

\* the row's "passed" handed on as it is
passed_raw(res) == Get(res, "passed")

\* line 125: the passed of the event built from a result row
passed_of(res) == Bool(Truthy(Get(res, "passed")))

\* lines 117-127: the event built from one result row, or the exception
\* raised while building it
build_event(report, ds_id, ds_name, res, iso_ts) ==
    LET cat == PyOr(Get(res, "category"), Obj(EmptyDict))
        fv  == value_of(res)
    IN  IF cat.t # "obj" THEN Raise("AttributeError")
        ELSE IF ~fv.ok THEN fv
        ELSE Ok(MonitoringPlatformQualityCheck(
                  PyOr(Get(report, "datasetId"), ds_id),
                  ds_name,
                  Get(res, "name"),
                  Obj([context  |-> Get(cat.d, "context"),
                       category |-> Get(cat.d, "category")]),
                  Get(res, "low"),
                  fv.val,
                  passed_of(res),
                  iso_ts))

\* send_event without raise_for_status
send_event_unchecked(auth, r) ==
    LET tok == _resolve_logstash_basic(auth) IN
    IF ~tok.ok THEN tok
    ELSE IF r.exc THEN Raise("ConnectionError")
    ELSE Ok(None)

\* send_event that swallows a transport failure
send_event_swallow(auth, r) ==
    LET tok == _resolve_logstash_basic(auth) IN
    IF ~tok.ok THEN tok
    ELSE IF r.exc THEN Ok(None)
    ELSE IF ~r.ok THEN Raise("HTTPError")
    ELSE Ok(None)

\* send_event that only logs a refused or failed POST
send_event_log_only(auth, r) ==
    LET tok == _resolve_logstash_basic(auth) IN
    IF ~tok.ok THEN tok ELSE Ok(None)

\* send_event after the payload is built: the headers are resolved before
\* requests.post is entered, so a missing token raises with no call made;
\* otherwise r is the response of the POST
send_event(auth, r) ==
    LET tok == _resolve_logstash_basic(auth) IN
    IF ~tok.ok THEN tok
    ELSE IF r.exc THEN Raise("ConnectionError")
    ELSE IF ~r.ok THEN Raise("HTTPError")
    ELSE Ok(None)

\* the name of the first dataset kept for the datasets after it
assign_ds_name_once(old, looked_up) == IF old # None THEN old ELSE looked_up

\* line 107: the value of ds_name after the lookup of a dataset returned
\* looked_up, old being its value before
assign_ds_name(old, looked_up) == looked_up

\* line 113: the list that `for res in results` iterates
results_of(report) == PyOr(Get(report, "results"), List(<<>>))

\* the results visited last to first
next_res_reversed(n, k) == n - k + 1

\* line 116: the position in a list of n results of the row that the k-th
\* iteration (k = 1, 2, ...) of `for res in results` visits
next_res(n, k) == k

\* the timestamp normalized again for every result row
at_timestamp_per_row(report, iso_ts, now) ==
    to_iso_z(Get(report, "issued"), now).val

\* line 126: the at_timestamp of the event built for one result row, when
\* the wall clock shows now
at_timestamp(report, iso_ts, now) == iso_ts

\* every evaluation triggered twice
pair_calls_twice(ds, c, ok, isreport, nrows) ==
    <<[op |-> "EVAL", ds |-> ds, crit |-> c, ok |-> ok, report |-> isreport,
       rows |-> nrows],
      [op |-> "EVAL", ds |-> ds, crit |-> c, ok |-> ok, report |-> isreport,
       rows |-> nrows]>>

\* a refused evaluation trigger tried a second time
pair_calls_retry(ds, c, ok, isreport, nrows) ==
    IF ok
    THEN <<[op |-> "EVAL", ds |-> ds, crit |-> c, ok |-> ok,
            report |-> isreport, rows |-> nrows]>>
    ELSE <<[op |-> "EVAL", ds |-> ds, crit |-> c, ok |-> ok,
            report |-> isreport, rows |-> nrows],
           [op |-> "EVAL", ds |-> ds, crit |-> c, ok |-> ok,
            report |-> isreport, rows |-> nrows]>>

\* the name looked up again for every pair
pair_calls_with_lookup(ds, c, ok, isreport, nrows) ==
    <<[op |-> "GET", ds |-> ds],
      [op |-> "EVAL", ds |-> ds, crit |-> c, ok |-> ok, report |-> isreport,
       rows |-> nrows]>>

\* lines 109-111: the network calls made for one pair before its results
\* are read: the evaluation trigger alone
pair_calls(ds, c, ok, isreport, nrows) ==
    <<[op |-> "EVAL", ds |-> ds, crit |-> c, ok |-> ok, report |-> isreport,
       rows |-> nrows]>>

\* ------------------------------------------------------------------ inputs
\* the configured lists: the first k identifiers, for every k up to the bound
DatasetLists  == {[i \in 1..k |-> Id("d", i)] : k \in 0..MaxDatasets}
CriteriaLists == {[i \in 1..k |-> Id("c", i)] : k \in 0..MaxCriteria}
Tokens        == {None, Chars(<<>>), Chars(<<" ">>), Chars(<<"t">>)}

\* bodies of GET {base}/Dataset/{id}
DatasetBodies ==
    {EmptyBody, InvalidBody, JsonBody(List(<<>>)), JsonBody(Obj(EmptyDict)),
     JsonBody(Obj([title |-> Str("T")])),
     JsonBody(Obj([name |-> Str("N")])),
     JsonBody(Obj([title |-> Str(""), name |-> Str("N")])),
     JsonBody(Obj([title |-> Str("T"), name |-> Str("N")]))}

GetResponses ==
    {TransportError, Response(FALSE, EmptyBody), Response(FALSE, InvalidBody)}
    \cup {Response(TRUE, b) : b \in DatasetBodies}

\* values of the report's "issued"
Offsets == {-1, 1}
IssuedValues ==
    {Absent, BigNum, Str("not-a-date"), Num(MaxMs), DateStr(MaxMs, None)}
    \cup {DateStr(MaxMs, Num(o)) : o \in Offsets}

\* values of a row's "passed" besides those of Rows below
PassedValues == {Num(1), None, Bool(FALSE), Str("")}

\* result rows
Row(name, category, low, value, passed) ==
    Obj(Dict([name |-> name, category |-> category, low |-> low,
              value |-> value, passed |-> passed]))

BaseRow ==
    Row(Str("r"), Obj([context |-> Str("x"), category |-> Str("k")]),
        Num(0), Num(1), Bool(TRUE))

Rows ==
    {BaseRow,
     Row(Str("r"), Obj([context |-> Str("x"), category |-> None]),
         Absent, Num(0), Num(0)),
     Row(Str("r"), Obj([category |-> Str("k")]), Num(0), None, Str("yes")),
     Row(Absent, Absent, Absent, Absent, Absent),
     Row(Str("r"), Obj([context |-> None, category |-> None]),
         None, Str("abc"), Str(""))}
    \cup {Row(Str("r"), Obj([context |-> Str("x"), category |-> Str("k")]),
              Num(0), Num(1), p) : p \in PassedValues}

Report(id, iss, rs) ==
    Obj(Dict([datasetId |-> id, issued |-> iss, results |-> rs]))

\* a list of k copies of a row
Repeat(row, k) == List([i \in 1..k |-> row])

\* the reports the service may return, one factor varied at a time around
\* the report {results: [BaseRow]}:
\*   every shape of "results" (missing, null, 0..MaxResults rows);
\*   every value of "issued", with no row and with one row;
\*   every row of Rows;
\*   a report that carries its own datasetId, and one whose datasetId is
\*   the empty string
Reports ==
    {Report(Absent, Absent, rs) :
        rs \in {Absent, None} \cup {Repeat(BaseRow, k) : k \in 0..MaxResults}}
    \cup {Report(Absent, iss, Repeat(BaseRow, k)) :
            iss \in IssuedValues, k \in {0, 1}}
    \cup {Report(Absent, Absent, Repeat(row, 1)) : row \in Rows}
    \cup {Report(id, Absent, Repeat(BaseRow, 1)) : id \in {Str("r1"), Str("")}}

EvalResponses ==
    {TransportError, Response(FALSE, EmptyBody), Response(TRUE, InvalidBody),
     Response(FALSE, JsonBody(Obj(EmptyDict))),
     Response(TRUE, JsonBody(List(<<>>)))}
    \cup {Response(TRUE, JsonBody(rep)) : rep \in Reports}

SendResponses == {TransportError, Response(FALSE, EmptyBody), Response(TRUE, EmptyBody)}

\* ------------------------------------------------------------------- state
VARIABLES
    dataset_ids,          \* self.dataset_ids
    criteria_ids,         \* self.criteria_ids
    logstash_basic_auth,  \* self.logstash_basic_auth
    pc,                   \* "ds_loop", "crit_loop", "res_loop", "done", "failed"
    exc,                  \* the exception that left run_once and the function
                          \* that raised it, or None
    ds_i, crit_i, res_i,  \* items consumed by the three for-loops
    ds_id, ds_name, crit, \* locals of run_once
    report, iso_ts, results, sent_for_pair,
    total_pairs, total_events,
    payload,              \* the payload of the latest send_event
    summary,              \* the [DONE] log line, once written
    clock,                \* the wall clock
    last_call,            \* the latest network call, or None
    n_get, n_eval, n_send,\* the network calls made so far, by operation
    n_ok,                 \* the forwarding calls that returned successfully
    n_rows                \* the result rows received so far

vars == <<dataset_ids, criteria_ids, logstash_basic_auth, pc, exc, ds_i,
          crit_i, res_i, ds_id, ds_name, crit, report, iso_ts, results,
          sent_for_pair, total_pairs, total_events, payload, summary, clock,
          last_call, n_get, n_eval, n_send, n_ok, n_rows>>

config == <<dataset_ids, criteria_ids, logstash_basic_auth>>

\* what the outside world has seen of the run
log == <<last_call, n_get, n_eval, n_send, n_ok, n_rows>>

\* the calls of operation op in a sequence of calls
Count(cs, op) == Cardinality({i \in 1..Len(cs) : cs[i].op = op})

\* the forwarding calls of a sequence of calls that returned successfully
CountOk(cs) == Cardinality({i \in 1..Len(cs) : cs[i].op = "SEND" /\ cs[i].ok})

\* the step makes the network calls cs, one after the other, and receives
\* rows result rows
Observe(cs, rows) ==
    /\ last_call' = cs[Len(cs)]
    /\ n_get'  = n_get  + Count(cs, "GET")
    /\ n_eval' = n_eval + Count(cs, "EVAL")
    /\ n_send' = n_send + Count(cs, "SEND")
    /\ n_ok'   = n_ok   + CountOk(cs)
    /\ n_rows' = n_rows + rows

Init ==
    /\ dataset_ids \in DatasetLists
    /\ criteria_ids \in CriteriaLists
    /\ logstash_basic_auth \in Tokens
    /\ pc = "ds_loop"
    /\ exc = None
    /\ ds_i = 0 /\ crit_i = 0 /\ res_i = 0
    /\ ds_id = None /\ ds_name = None /\ crit = None
    /\ report = None /\ iso_ts = None /\ results = None
    /\ sent_for_pair = 0
    /\ total_pairs = 0 /\ total_events = 0
    /\ payload = None
    /\ summary = None
    /\ clock = 0
    /\ last_call = None
    /\ n_get = 0 /\ n_eval = 0 /\ n_send = 0 /\ n_ok = 0 /\ n_rows = 0

\* an exception of type e raised in function f leaves run_once
Fail(e, f) ==
    /\ pc' = "failed"
    /\ exc' = [type |-> e, in |-> f]

\* lines 105-107: the outer loop takes the next dataset and looks up its name
FetchDatasetName ==
    /\ pc = "ds_loop"
    /\ ds_i < Len(dataset_ids)
    /\ \E r \in GetResponses :
       \E name \in {fetch_dataset_name(r)} :
         /\ ds_i' = ds_i + 1
         /\ ds_id' = dataset_ids[ds_i + 1]
         /\ Observe(<<[op |-> "GET", ds |-> ds_i + 1,
                        name |-> IF name.ok THEN name.val ELSE None]>>, 0)
         /\ IF name.ok
            THEN /\ ds_name' = assign_ds_name(ds_name, name.val)
                 /\ crit_i' = 0
                 /\ pc' = "crit_loop"
                 /\ exc' = exc
            ELSE /\ Fail(name.exc, "fetch_dataset_name")
                 /\ UNCHANGED <<ds_name, crit_i>>
    /\ UNCHANGED <<config, res_i, crit, report, iso_ts, results,
                   sent_for_pair, total_pairs, total_events, payload,
                   summary, clock>>

\* lines 108-115: the inner loop takes the next criteria, counts the pair,
\* triggers the evaluation and normalizes the report's timestamp
EvaluateQuality ==
    /\ pc = "crit_loop"
    /\ crit_i < Len(criteria_ids)
    \* rep, ts and rs are each computed once; lines 112-113 are reached
    \* only with a report, and fail unless it is a dict
    /\ \E r \in EvalResponses :
       \E rep \in {evaluate_quality(r)} :
       \E isobj \in {rep.ok /\ rep.val.t = "obj"} :
       \E ts \in {IF isobj THEN to_iso_z(Get(rep.val.d, "issued"), clock)
                  ELSE Raise("AttributeError")},
          rs \in {IF isobj THEN results_of(rep.val.d) ELSE None} :
         LET nrows == IF isobj /\ rs.t = "list" THEN Len(rs.l) ELSE 0
             good  == isobj /\ ts.ok /\ rs.t = "list"
         IN
         /\ crit_i' = crit_i + 1
         /\ crit' = criteria_ids[crit_i + 1]
         /\ total_pairs' = total_pairs + 1
         /\ Observe(pair_calls(ds_i, crit_i + 1, ~r.exc /\ r.ok, isobj, nrows),
                    nrows)
         /\ IF good
            THEN /\ report' = rep.val
                 /\ iso_ts' = ts.val
                 /\ results' = rs
                 /\ res_i' = 0
                 /\ sent_for_pair' = 0
                 /\ pc' = "res_loop"
                 /\ exc' = exc
            ELSE /\ IF ~rep.ok THEN Fail(rep.exc, "evaluate_quality")
                    ELSE IF ~isobj THEN Fail("AttributeError", "run_once")
                    ELSE IF ~ts.ok THEN Fail(ts.exc, "to_iso_z")
                    ELSE Fail("TypeError", "run_once")
                 /\ UNCHANGED <<report, iso_ts, results, res_i, sent_for_pair>>
    /\ UNCHANGED <<config, ds_i, ds_id, ds_name, total_events, payload,
                   summary, clock>>

\* lines 116-130: the innermost loop takes the next result row, builds its
\* event, forwards it and counts it
SendEvent ==
    /\ pc = "res_loop"
    /\ res_i < Len(results.l)
    \* the row, the event and the token are each computed once; r is the
    \* response of the POST, when the POST is made
    /\ \E k \in {next_res(Len(results.l), res_i + 1)} :
       \E res \in {results.l[k].d} :
       \E evt \in {build_event(report.d, ds_id, ds_name, res,
                               at_timestamp(report.d, iso_ts, clock))},
          tok \in {_resolve_logstash_basic(logstash_basic_auth)} :
       \E r \in SendResponses :
       \E out \in {send_event(logstash_basic_auth, r)} :
         /\ res_i' = res_i + 1
         /\ IF ~evt.ok
            THEN /\ Fail(evt.exc, "run_once")
                 /\ UNCHANGED <<payload, log, sent_for_pair, total_events>>
            ELSE /\ payload' = to_dict(evt.val)
                 /\ IF tok.ok
                    THEN Observe(<<[op |-> "SEND", ds |-> ds_i,
                                    crit |-> crit_i, row |-> k,
                                    ok |-> ~r.exc /\ r.ok]>>, 0)
                    ELSE UNCHANGED log
                 /\ IF out.ok
                    THEN /\ sent_for_pair' = sent_for_pair + 1
                         /\ total_events' = total_events + 1
                         /\ UNCHANGED <<pc, exc>>
                    ELSE /\ Fail(out.exc, IF tok.ok THEN "send_event"
                                          ELSE "_resolve_logstash_basic")
                         /\ UNCHANGED <<sent_for_pair, total_events>>
    /\ UNCHANGED <<config, ds_i, crit_i, ds_id, ds_name, crit, report, iso_ts,
                   results, total_pairs, summary, clock>>

\* line 131: the results of the pair are exhausted
PairDone ==
    /\ pc = "res_loop"
    /\ res_i = Len(results.l)
    /\ pc' = "crit_loop"
    \* the locals of send_event are gone, and those of the finished
    \* iteration are all assigned again (lines 111-115) before they are read
    /\ payload' = None
    /\ report' = None /\ iso_ts' = None /\ results' = None
    /\ res_i' = 0 /\ sent_for_pair' = 0
    /\ UNCHANGED <<config, exc, ds_i, crit_i, ds_id, ds_name, crit,
                   total_pairs, total_events, summary, clock, log>>

\* line 108: the criteria of the dataset are exhausted
DatasetDone ==
    /\ pc = "crit_loop"
    /\ crit_i = Len(criteria_ids)
    /\ pc' = "ds_loop"
    /\ UNCHANGED <<config, exc, ds_i, crit_i, res_i, ds_id, ds_name, crit,
                   report, iso_ts, results, sent_for_pair, total_pairs,
                   total_events, payload, summary, clock, log>>

\* line 132: the datasets are exhausted; the summary is logged
RunDone ==
    /\ pc = "ds_loop"
    /\ ds_i = Len(dataset_ids)
    /\ pc' = "done"
    /\ summary' = [pairs |-> total_pairs, events |-> total_events]
    /\ UNCHANGED <<config, exc, ds_i, crit_i, res_i, ds_id, ds_name, crit,
                   report, iso_ts, results, sent_for_pair, total_pairs,
                   total_events, payload, clock, log>>

\* time passes while run_once is running
Tick ==
    /\ pc \notin {"done", "failed"}
    /\ clock < MaxClock
    /\ clock' = clock + 1
    /\ UNCHANGED <<config, pc, exc, ds_i, crit_i, res_i, ds_id, ds_name, crit,
                   report, iso_ts, results, sent_for_pair, total_pairs,
                   total_events, payload, summary, log>>

Next ==
    \/ FetchDatasetName
    \/ EvaluateQuality
    \/ SendEvent
    \/ PairDone
    \/ DatasetDone
    \/ RunDone
    \/ Tick

Spec == Init /\ [][Next]_vars

\* a step of run_once itself
Step ==
    \/ FetchDatasetName
    \/ EvaluateQuality
    \/ SendEvent
    \/ PairDone
    \/ DatasetDone
    \/ RunDone

\* run_once runs in the only thread of the process, and every network call
\* returns or fails (the calls carry timeouts of 30 and 180 seconds): while
\* run_once has a step to take, it takes it
FairSpec == Spec /\ WF_vars(Step)

\* ---------------------------------------------------------------- history
\* position of a call in the nested iteration: dataset, criteria, row
Key(c) ==
    <<c.ds, IF "crit" \in DOMAIN c THEN c.crit ELSE 0,
            IF "row" \in DOMAIN c THEN c.row ELSE 0>>

LexLess(a, b) ==
    \/ a[1] < b[1]
    \/ a[1] = b[1] /\ a[2] < b[2]
    \/ a[1] = b[1] /\ a[2] = b[2] /\ a[3] < b[3]

\* the latest call is a call of operation op
LastIs(op) == last_call # None /\ last_call.op = op

\* the latest call is a call of operation op that got a non-success status
\* or no response
LastRefused(op) == LastIs(op) /\ ~last_call.ok

\* the step makes a network call
Calls == n_get' + n_eval' + n_send' > n_get + n_eval + n_send

\* the rows of the pair in progress that are already forwarded
SentOfPair == n_send - (n_rows - Len(results.l))

\* the configured token is absent, empty or made of spaces only
TokenUnavailable ==
    \/ logstash_basic_auth = None
    \/ \A i \in 1..Len(logstash_basic_auth.chars) :
           logstash_basic_auth.chars[i] = " "

\* the step takes the next result row of the pair
TakesRow == pc = "res_loop" /\ res_i' = res_i + 1

\* the step builds the event of a result row and enters send_event with it
Forwards ==
    /\ TakesRow
    /\ payload' # None
    /\ ~(pc' = "failed" /\ exc'.in = "run_once")

\* the step issues the POST that forwards the event of a result row
Posts == Forwards /\ Calls

\* ------------------------------------------------------------------ claims

\* C1: when a forwarding call is refused the run has ended with an error,
\* and no network call of any kind follows it: the remaining rows and pairs
\* are never attempted.
C1_FailedForwardEndsRun ==
    [][ /\ LastRefused("SEND")' => pc' = "failed"
        /\ LastRefused("SEND") => UNCHANGED log ]_vars

\* the very first event of a run is refused with an HTTP error status while
\* rows, criteria and datasets remain
C1_Witness ==
    /\ pc = "failed"
    /\ exc = [type |-> "HTTPError", in |-> "send_event"]
    /\ LastRefused("SEND")
    /\ n_send = 1
    /\ res_i < Len(results.l)
    /\ crit_i < Len(criteria_ids)
    /\ ds_i < Len(dataset_ids)

\* C2: when an evaluation trigger is refused the run has ended with an
\* error, and no network call follows it: no event of the pair is forwarded,
\* no later pair is evaluated and no later dataset is looked up.
C2_FailedEvaluationEndsRun ==
    [][ /\ LastRefused("EVAL")' => pc' = "failed"
        /\ LastRefused("EVAL") => UNCHANGED log ]_vars

\* the trigger of a pair gets an HTTP error status while criteria and
\* datasets remain
C2_Witness ==
    /\ pc = "failed"
    /\ exc = [type |-> "HTTPError", in |-> "evaluate_quality"]
    /\ LastRefused("EVAL")
    /\ crit_i < Len(criteria_ids)
    /\ ds_i < Len(dataset_ids)

\* C3: whatever the metadata read returns, fetch_dataset_name raises no
\* error out of run_once.
C3_LookupNeverFatal ==
    exc # None => exc.in # "fetch_dataset_name"

\* C4: the payload of an event has no "category" key when the row's context
\* and category are both null or missing, and a "category" with exactly the
\* non-null sub-field when one of them is null.
C4_CategoryOmitted ==
    (pc = "res_loop" /\ payload # None) =>
        LET res == results.l[res_i].d
            cat == PyOr(Get(res, "category"), Obj(EmptyDict)).d
            ctx == Get(cat, "context")
            sub == Get(cat, "category")
        IN  /\ (ctx = None /\ sub = None) => "category" \notin DOMAIN payload
            /\ (ctx # None /\ sub = None) =>
                   Get(payload, "category") = Obj([context |-> ctx])
            /\ (ctx = None /\ sub # None) =>
                   Get(payload, "category") = Obj([category |-> sub])

\* C5: every network call lies after the call before it in the nested order
\* (dataset, then criteria, then row).  A report is requested only when
\* every row received before is forwarded, and the rows of a report are
\* forwarded one by one from the first: so the events forwarded so far are a
\* prefix of the rows received so far, in dataset-major, criteria-minor, row
\* order.
C5_NestedOrder ==
    [][ Calls =>
          /\ last_call # None => LexLess(Key(last_call), Key(last_call'))
          /\ LastIs("EVAL")' => n_send = n_rows
          /\ LastIs("SEND")' =>
                /\ last_call'.row = SentOfPair + 1
                /\ last_call'.row <= Len(results.l)
                /\ n_send' = n_send + 1 ]_vars

\* the second row of the second criteria of the second dataset is forwarded
C5_Witness ==
    /\ LastIs("SEND")
    /\ Key(last_call) = <<2, 2, 2>>
    /\ n_send >= 3

\* C6: the lookups made are exactly one for each entry of the dataset list
\* taken so far, each made when its entry is taken and so before the
\* evaluations of that dataset; a completed run has made one lookup per
\* configured dataset, whatever the number of criteria.
C6_OneLookupPerDataset ==
    /\ [](n_get = ds_i)
    /\ [](pc = "done" => n_get = Len(dataset_ids))
    /\ [][ Calls =>
             /\ LastIs("GET")' => (n_get' = n_get + 1 /\ last_call'.ds = n_get')
             /\ LastIs("EVAL")' => (n_get' = n_get /\ last_call'.ds = n_get)
             /\ LastIs("SEND")' => n_get' = n_get ]_vars

\* a run over two datasets and two criteria completes
C6_Witness ==
    /\ pc = "done"
    /\ Len(dataset_ids) = 2
    /\ Len(criteria_ids) = 2
    /\ n_eval = 4
    /\ n_get = 2

\* C7: total_events is the number of forwarding calls that returned
\* successfully and total_pairs the number of evaluation triggers started;
\* a completed run has counted datasets x criteria pairs and one event per
\* result row received, and reports these counts.
C7_CountersExact ==
    /\ total_events = n_ok
    /\ total_pairs = n_eval
    /\ pc = "done" =>
           /\ total_pairs = Len(dataset_ids) * Len(criteria_ids)
           /\ total_events = n_rows
           /\ summary = [pairs |-> total_pairs, events |-> total_events]

\* two datasets, one criteria, one row per report: 2 pairs and 2 events
C7_Witness ==
    /\ pc = "done"
    /\ Len(dataset_ids) = 2
    /\ Len(criteria_ids) = 1
    /\ n_rows = 2
    /\ total_pairs = 2
    /\ total_events = 2

C9_OneTimestampPerPair ==
    [][ /\ (pc = "res_loop" /\ pc' \in {"res_loop", "failed"})
               => iso_ts' = iso_ts
        /\ (pc = "res_loop" /\ res_i' = res_i + 1 /\ payload' # None)
               => Get(payload', "timestamp") = iso_ts ]_vars

\* the second event of a pair whose report has no usable "issued" is
\* forwarded after the wall clock has moved on
C9_Witness ==
    /\ pc = "res_loop"
    /\ sent_for_pair = 2
    /\ Get(report.d, "issued") \in {None, Str("not-a-date")}
    /\ iso_ts = IsoZ(0)
    /\ clock = 1
    /\ Get(payload, "timestamp") = IsoZ(0)

\* C10: no value of a report's "issued" makes to_iso_z raise out of
\* run_once.
C10_NormalizerNeverRaises ==
    exc # None => exc.in # "to_iso_z"

\* C11: a connector whose token is absent, empty or whitespace-only never
\* issues a POST to the ingestion URL; each of its forwarding attempts ends
\* the run with the configuration error, raised with no network call made.
C11_NoPostWithoutToken ==
    /\ [](TokenUnavailable => n_send = 0)
    /\ [][ (TokenUnavailable /\ Forwards) =>
             /\ pc' = "failed"
             /\ exc' = [type |-> "RuntimeError",
                        in |-> "_resolve_logstash_basic"]
             /\ UNCHANGED log ]_vars

\* a connector with a whitespace-only token has triggered an evaluation,
\* built the payload of the first row and failed with no POST issued
C11_Witness ==
    /\ logstash_basic_auth = Chars(<<" ">>)
    /\ pc = "failed"
    /\ exc = [type |-> "RuntimeError", in |-> "_resolve_logstash_basic"]
    /\ payload # None
    /\ n_eval = 1
    /\ n_send = 0

\* C12: every payload handed to the forwarder has no top-level entry with
\* a null value, has the keys event_type, dataset_id and passed, has
\* event_type "quality_check" and has a strict boolean as passed.
C12_PayloadShape ==
    payload # None =>
        /\ \A k \in DOMAIN payload : payload[k] # None
        /\ {"event_type", "dataset_id", "passed"} \subseteq DOMAIN payload
        /\ payload.event_type = Str("quality_check")
        /\ payload.passed \in {Bool(TRUE), Bool(FALSE)}

\* the payload of a row without name, value and passed, of a dataset whose
\* name is unknown, is forwarded
C12_Witness ==
    /\ payload # None
    /\ LastIs("SEND") /\ last_call.ok
    /\ "name" \notin DOMAIN payload
    /\ "value" \notin DOMAIN payload
    /\ "dataset_name" \notin DOMAIN payload
    /\ payload.passed = Bool(FALSE)

\* C13: no network call is made a second time: every step makes at most
\* one call, and a call lies strictly after the call before it in the
\* order of dataset entries, pairs and rows, whether that call succeeded or
\* not; so no dataset entry is looked up twice, no pair triggered twice and
\* no row forwarded twice.
C13_NoRetry ==
    [][ Calls =>
          /\ n_get' + n_eval' + n_send' = n_get + n_eval + n_send + 1
          /\ last_call # None =>
                 /\ Key(last_call') # Key(last_call)
                 /\ LexLess(Key(last_call), Key(last_call'))
          /\ last_call'.ds <= Len(dataset_ids)
          /\ Key(last_call')[2] <= Len(criteria_ids) ]_vars

\* the name lookup of the first dataset gave no name, and the next call
\* made is the evaluation trigger of its first pair, which fails and is
\* followed by nothing
C13_Witness ==
    /\ pc = "failed"
    /\ LastRefused("EVAL")
    /\ exc = [type |-> "ConnectionError", in |-> "evaluate_quality"]
    /\ ds_name = None
    /\ n_get = 1
    /\ n_eval = 1

\* ds_name is the name resolved by the lookup of the dataset in progress:
\* the name a lookup resolves becomes ds_name and nothing but the lookup of
\* the next dataset changes it
NameOfCurrentDataset ==
    /\ (Calls /\ LastIs("GET")' /\ pc' = "crit_loop") =>
           ds_name' = last_call'.name
    /\ ~(Calls /\ LastIs("GET")') => ds_name' = ds_name

\* C14 as stated: every event built for a pair of dataset d carries the
\* name resolved by the lookup of d as dataset_name (no dataset_name when
\* it is null), and as dataset_id the report's datasetId whenever the
\* report has a datasetId, the requested dataset id otherwise.
C14_ReportIdWhenPresent ==
    [][ /\ NameOfCurrentDataset
        /\ Posts =>
               /\ Get(payload', "dataset_name") = ds_name
               /\ ds_name = None => "dataset_name" \notin DOMAIN payload'
               /\ payload'.dataset_id =
                     IF "datasetId" \in DOMAIN report.d
                     THEN report.d.datasetId
                     ELSE dataset_ids[ds_i] ]_vars

\* C14 amended: every event built for a pair of dataset d carries the name
\* resolved by the lookup of d as dataset_name (no dataset_name when it is
\* null), and as dataset_id the report's datasetId when that is a truthy
\* value; for a report whose datasetId is missing, null, empty, 0 or false
\* it carries the requested dataset id.
C14_EventIdentity ==
    [][ /\ NameOfCurrentDataset
        /\ Posts =>
               /\ Get(payload', "dataset_name") = ds_name
               /\ ds_name = None => "dataset_name" \notin DOMAIN payload'
               /\ payload'.dataset_id =
                     IF Get(report.d, "datasetId") \notin
                            {None, Str(""), Num(0), Bool(FALSE)}
                     THEN report.d.datasetId
                     ELSE dataset_ids[ds_i] ]_vars

\* an event of the second dataset, whose report has an empty datasetId,
\* carries the name resolved for the second dataset and the requested id
C14_Witness ==
    /\ pc = "res_loop"
    /\ ds_i = 2
    /\ LastIs("SEND")
    /\ payload # None
    /\ Get(report.d, "datasetId") = Str("")
    /\ ds_name = Str("N")
    /\ payload.dataset_name = Str("N")
    /\ payload.dataset_id = Id("d", 2)

\* C15: the passed of a forwarded event is true for a row whose passed is
\* true, 1 or "yes" and false for a row whose passed is missing, null, 0,
\* false or ""; whatever its passed, the row is forwarded unless its value
\* is one that float() rejects.
C15_PassedCoercion ==
    [][ TakesRow =>
          LET row == results.l[res_i + 1].d
              p   == Get(row, "passed")
          IN  /\ p \in {Bool(TRUE), Num(1), Str("yes"),
                        None, Num(0), Bool(FALSE), Str("")}
              /\ Forwards =>
                     payload'.passed =
                         Bool(p \in {Bool(TRUE), Num(1), Str("yes")})
              /\ ~Forwards => Get(row, "value").t \notin {"none", "num"} ]_vars

\* a row whose passed is "yes" is forwarded with passed true
C15_Witness ==
    /\ pc = "res_loop"
    /\ res_i = 1
    /\ Get(results.l[1].d, "passed") = Str("yes")
    /\ payload # None
    /\ payload.passed = Bool(TRUE)
    /\ LastIs("SEND") /\ last_call.ok

\* C16: a row whose value is missing or null is forwarded with no "value"
\* key, and a row whose value is a number, 0 included, is forwarded with
\* that number as "value".
C16_ValueOptional ==
    [][ TakesRow =>
          LET v == Get(results.l[res_i + 1].d, "value") IN
              /\ v = None => (Forwards /\ "value" \notin DOMAIN payload')
              /\ v.t = "num" =>
                     /\ Forwards
                     /\ "value" \in DOMAIN payload'
                     /\ payload'.value = v ]_vars

\* a row whose value is the number 0 is forwarded with "value": 0
C16_Witness ==
    /\ pc = "res_loop"
    /\ res_i = 1
    /\ Get(results.l[1].d, "value") = Num(0)
    /\ payload # None
    /\ "value" \in DOMAIN payload
    /\ payload.value = Num(0)
    /\ LastIs("SEND") /\ last_call.ok

\* C17: for a report whose "issued" is a parseable date/time string the
\* normalized timestamp, carried by the events of the pair, is the wall
\* time of the string when the string has no timezone information, and
\* the wall time minus the offset when it has one.
C17_StringToUtc ==
    (pc = "res_loop" /\ "date" \in DOMAIN Get(report.d, "issued")) =>
        LET d == report.d.issued.date IN
            /\ d.off = None => iso_ts = IsoZ(d.wall)
            /\ d.off # None => iso_ts = IsoZ(d.wall - d.off.n)
            /\ payload # None => payload.timestamp = iso_ts

\* an event of a report issued at an offset of +1 carries the UTC instant
\* one unit earlier
C17_Witness ==
    /\ pc = "res_loop"
    /\ Get(report.d, "issued") = DateStr(MaxMs, Num(1))
    /\ iso_ts = IsoZ(MaxMs - 1)
    /\ payload # None
    /\ payload.timestamp = IsoZ(MaxMs - 1)

\* C18: the summary is written exactly in the runs that complete: it
\* exists if and only if run_once has returned, a run that failed has an
\* error and no summary, a completed run has triggered every configured
\* pair and forwarded every received row successfully, a refused trigger
\* or forward ends the run with no summary, and once the summary is
\* written it is not written again and no network call follows.
C18_SummaryOnCompletion ==
    /\ [](summary # None <=> pc = "done")
    /\ [](pc = "failed" => (exc # None /\ summary = None))
    /\ [](pc = "done" =>
            /\ exc = None
            /\ n_eval = Len(dataset_ids) * Len(criteria_ids)
            /\ n_send = n_rows /\ n_ok = n_send
            /\ TokenUnavailable => n_rows = 0)
    /\ [][ /\ (Calls /\ ~LastIs("GET")' /\ ~last_call'.ok) =>
                 (pc' = "failed" /\ summary' = None)
           /\ summary # None => (summary' = summary /\ UNCHANGED log) ]_vars

\* a run of one pair with two rows has completed: the summary is written
\* and the latest network call is the forward of the second row
C18_Witness ==
    /\ pc = "done"
    /\ summary = [pairs |-> 1, events |-> 2]
    /\ LastIs("SEND") /\ last_call.row = 2
    /\ n_send = 2

\* C19: in a run whose token is unavailable the configuration error is
\* raised exactly when the event of the first result row of the run has
\* been handed to send_event: until then lookups and triggers go on, no
\* row is passed over, and a run that received no row never reports the
\* missing token and can complete.
C19_LazyTokenCheck ==
    TokenUnavailable =>
        /\ (exc # None /\ exc.in = "_resolve_logstash_basic") <=> payload # None
        /\ payload # None =>
               (pc = "failed" /\ res_i = 1 /\ n_rows = Len(results.l))
        /\ pc # "failed" => (res_i = 0 /\ total_events = 0)
        /\ n_rows = 0 => (exc = None \/ exc.in # "_resolve_logstash_basic")
        /\ pc = "done" => n_rows = 0

\* a connector without token has looked up two datasets and triggered two
\* evaluations, the first with an empty report, before the first row of
\* the run makes it fail
C19_Witness ==
    /\ logstash_basic_auth = None
    /\ pc = "failed"
    /\ exc = [type |-> "RuntimeError", in |-> "_resolve_logstash_basic"]
    /\ n_get = 2
    /\ n_eval = 2
    /\ n_rows >= 1
    /\ n_send = 0

\* C20: run_once eventually completes or fails, and at no time has it made
\* more name lookups than there are configured datasets, more evaluation
\* triggers than there are pairs of a dataset and a criteria, or more
\* forwards than result rows received; once it has failed, the run makes
\* no further call.
C20_Terminates ==
    /\ <>(pc \in {"done", "failed"})
    /\ [](/\ n_get <= Len(dataset_ids)
          /\ n_eval <= Len(dataset_ids) * Len(criteria_ids)
          /\ n_send <= n_rows)
    /\ [][pc = "failed" => UNCHANGED log]_vars

\* a run over the longest lists with full reports has ended, having made
\* every call the bound allows
C20_Witness ==
    /\ pc = "done"
    /\ n_get = MaxDatasets
    /\ n_eval = MaxDatasets * MaxCriteria
    /\ n_send = MaxDatasets * MaxCriteria * MaxResults

====
